---- MODULE Spec2Model ----
(***************************************************************************)
(* A model of the tl HTML parser (src/src/parser.rs) and of the document   *)
(* facade that queries its result (src/src/vdom.rs).                       *)
(*                                                                         *)
(* Bytes are one-character strings, byte strings are sequences of them.    *)
(* Cursor positions are 0-based as in the source: the byte at position i   *)
(* is input[i + 1].  A slice of the input is kept as the pair of positions *)
(* [s, e) it was cut at; its bytes are Bytes(s, e).                        *)
(* An Option is a sequence of length 0 (None) or 1 (Some).                 *)
(***************************************************************************)
EXTENDS Integers, Sequences, FiniteSets, TLC

VARIABLES
    input,      \* the byte buffer handed to Parser::new
    options,    \* ParserOptions read by vdom.rs: [track_ids, track_classes]
    pc,         \* "parsing" | "done" | "panicked": position of Parser::parse
    idx,        \* stream.idx
    ast,        \* Parser.ast: handles of the top-level nodes
    tags,       \* the arena behind VDom::nodes(): nodes in insertion order
    ids,        \* Parser.ids: set of <<id bytes, handle>>, one per key
    classes,    \* Parser.classes: set of <<token bytes, handles>>, one per key
    version,    \* Parser.version
    ret         \* the value returned by the last VDom query

vars == <<input, options, pc, idx, ast, tags, ids, classes, version, ret>>

None == <<>>
Some(x) == <<x>>

Min(a, b) == IF a < b THEN a ELSE b
Max(a, b) == IF a < b THEN b ELSE a
SetMin(S) == CHOOSE x \in S : \A y \in S : x <= y

RECURSIVE Flatten(_)
Flatten(ss) == IF ss = <<>> THEN <<>> ELSE Head(ss) \o Flatten(Tail(ss))

(***************************************************************************)
(* Constants of parser.rs                                                  *)
(***************************************************************************)
OPENING_TAG == "<"
END_OF_TAG == <<"<", "/">>
SELF_CLOSING == <<"/", ">">>
COMMENT == <<"-", "-">>
ID_ATTR == <<"i", "d">>
CLASS_ATTR == <<"c", "l", "a", "s", "s">>
VOID_TAGS ==
    { <<"a","r","e","a">>, <<"b","a","s","e">>, <<"b","r">>, <<"c","o","l">>,
      <<"e","m","b","e","d">>, <<"h","r">>, <<"i","m","g">>,
      <<"i","n","p","u","t">>, <<"k","e","y","g","e","n">>, <<"l","i","n","k">>,
      <<"m","e","t","a">>, <<"p","a","r","a","m">>,
      <<"s","o","u","r","c","e">>, <<"t","r","a","c","k">>, <<"w","b","r">> }
WHITESPACES == {" ", "\n"}
QUOTES == {"\"", "'"}

Contains(seq, ch) == \E i \in 1..Len(seq) : seq[i] = ch

(***************************************************************************)
(* util: the identifier allow-list and the whitespace test of the class    *)
(* tokenizer.                                                              *)
(***************************************************************************)
Lower == {"a","b","c","d","e","h","i","l","m","o","p","r","s","t","x","y"}
Upper == {"A","B","C","D","E","H","I","L","M","O","P","R","S","T","X","Y"}
is_ident(ch) == ch \in Lower \cup Upper \cup {"0", "1", "-", "_"}
is_strict_whitespace(ch) == ch \in WHITESPACES

UpperOf ==
    [c \in Lower |->
        CASE c = "a" -> "A" [] c = "b" -> "B" [] c = "c" -> "C" [] c = "d" -> "D"
          [] c = "e" -> "E" [] c = "h" -> "H" [] c = "i" -> "I" [] c = "l" -> "L"
          [] c = "m" -> "M" [] c = "o" -> "O" [] c = "p" -> "P" [] c = "r" -> "R"
          [] c = "s" -> "S" [] c = "t" -> "T" [] c = "x" -> "X" [] c = "y" -> "Y"]
to_ascii_uppercase(bs) ==
    [i \in 1..Len(bs) |-> IF bs[i] \in Lower THEN UpperOf[bs[i]] ELSE bs[i]]

(***************************************************************************)
(* Stream: the byte cursor.  p is the parser under construction, a record  *)
(* [idx, tags, ids, classes, version, panic]; panic records an index out   *)
(* of the buffer's range.                                                  *)
(***************************************************************************)
Bytes(s, e) == SubSeq(input, s + 1, e)

is_eof(p) == p.idx >= Len(input)
current_cpy(p) == IF p.idx < Len(input) THEN Some(input[p.idx + 1]) ELSE None
InBounds(i) == i < Len(input)
SliceInBounds(s, e) == s <= e /\ e <= Len(input)
\* slice(from, to) clamps `to` to the buffer length
slice(from, to) == [s |-> from, e |-> Min(Len(input), to)]
slice_unchecked(from, to) == [s |-> from, e |-> to]
slice_from(p, from) == slice_unchecked(from, p.idx)
slice_len(p, from, len) == slice(from, p.idx + len)
SliceBytes(sl) == Bytes(sl.s, sl.e)
Advance(p, n) == [p EXCEPT !.idx = @ + n]

\* expect_and_skip: Some(byte) and one step forward iff the current byte is `expect`
expect_and_skip(p, expect) ==
    IF current_cpy(p) = Some(expect)
    THEN [p |-> Advance(p, 1), r |-> Some(expect)]
    ELSE [p |-> p, r |-> None]
expect_and_skip_cond(p, expect) ==
    LET x == expect_and_skip(p, expect) IN [p |-> x.p, r |-> x.r # None]
expect_oneof_and_skip(p, expect) ==
    IF current_cpy(p) # None /\ current_cpy(p)[1] \in expect
    THEN [p |-> Advance(p, 1), r |-> current_cpy(p)]
    ELSE [p |-> p, r |-> None]
\* next: one step forward, then the byte there
stream_next(p) == LET q == Advance(p, 1) IN [p |-> q, r |-> current_cpy(q)]

(***************************************************************************)
(* Scanners of Parser                                                      *)
(***************************************************************************)
\* The first position at or after i whose byte is not in `set`, or the end of
\* the buffer: where the loop of read_while stops.
read_while(p, set) ==
    LET stops == {j \in p.idx..(Len(input) - 1) : input[j + 1] \notin set}
    IN  IF is_eof(p) THEN p
        ELSE IF stops = {} THEN [p EXCEPT !.idx = Len(input)]
        ELSE [p EXCEPT !.idx = SetMin(stops)]

skip_whitespaces(p) == read_while(p, WHITESPACES)

\* read_to with the slice cut one byte late: the terminator is taken along
read_to_overrun(p, terminator) ==
    LET start == p.idx
        stops == {j \in p.idx..(Len(input) - 1) : input[j + 1] \in terminator}
        q     == IF is_eof(p) THEN p
                 ELSE IF stops = {} THEN [p EXCEPT !.idx = Len(input)]
                 ELSE [p EXCEPT !.idx = SetMin(stops)]
    IN  [p |-> q,
         r |-> slice_unchecked(start, IF stops = {} THEN q.idx ELSE q.idx + 1)]

\* read_to: the bytes up to (not including) the first terminator, or up to
\* the end of the buffer
read_to(p, terminator) ==
    LET start == p.idx
        stops == {j \in p.idx..(Len(input) - 1) : input[j + 1] \in terminator}
        q     == IF is_eof(p) THEN p
                 ELSE IF stops = {} THEN [p EXCEPT !.idx = Len(input)]
                 ELSE [p EXCEPT !.idx = SetMin(stops)]
    IN  [p |-> q, r |-> slice_unchecked(start, q.idx)]

\* read_ident: Some(run of identifier bytes) when a byte that is no identifier
\* byte ends the run, None when the buffer ends first
read_ident(p) ==
    LET start == p.idx
        stops == {j \in p.idx..(Len(input) - 1) : ~is_ident(input[j + 1])}
    IN  IF is_eof(p) THEN [p |-> p, r |-> None]
        ELSE IF stops = {} THEN [p |-> [p EXCEPT !.idx = Len(input)], r |-> None]
        ELSE [p |-> [p EXCEPT !.idx = SetMin(stops)],
              r |-> Some(slice_unchecked(start, SetMin(stops)))]

\* skip_comment: one iteration of the loop at position p.idx; `start` is the
\* position at which skip_comment was entered
RECURSIVE skip_comment_loop(_, _)
skip_comment_loop(p, start) ==
    IF is_eof(p) THEN [p |-> p, r |-> None]
    ELSE IF SliceBytes(slice_len(p, p.idx, Len(COMMENT))) = COMMENT
         THEN LET x == expect_and_skip_cond(Advance(p, Len(COMMENT)), ">")
              IN  IF x.r
                  THEN [p |-> x.p, r |-> Some(slice_unchecked(start, x.p.idx))]
                  ELSE skip_comment_loop(Advance(x.p, 1), start)
         ELSE skip_comment_loop(Advance(p, 1), start)

skip_comment(p) == skip_comment_loop(p, p.idx)

(***************************************************************************)
(* Attributes                                                              *)
(***************************************************************************)
NewAttributes == [raw |-> {}, id |-> None, class |-> None]

MapInsert(m, k, v) == {e \in m : e[1] # k} \cup {<<k, v>>}
MapGet(m, k) == IF \E e \in m : e[1] = k
                THEN Some((CHOOSE e \in m : e[1] = k)[2]) ELSE None

\* what an operation hands back: the parser after it, and its result
Ret(p, r) == [p |-> p, r |-> r]

\* parse_attribute, from the quote on: the value runs up to the same quote
parse_attribute_value(name, quote) ==
    IF quote.r = None THEN Ret(quote.p, None)
    ELSE Ret(read_to(quote.p, {quote.r[1]}).p,
             Some([k |-> name,
                   v |-> Some(SliceBytes(read_to(quote.p, {quote.r[1]}).r))]))

\* parse_attribute, from the `=` on
parse_attribute_eq(name, has_value) ==
    IF ~has_value.r THEN Ret(has_value.p, Some([k |-> name, v |-> None]))
    ELSE parse_attribute_value(
             name, expect_oneof_and_skip(skip_whitespaces(has_value.p), QUOTES))

\* parse_attribute, from the name on
parse_attribute_name(name) ==
    IF name.r = None THEN Ret(name.p, None)
    ELSE parse_attribute_eq(SliceBytes(name.r[1]),
                            expect_and_skip_cond(skip_whitespaces(name.p), "="))

\* parse_attribute: Some([k, v]) with v the optional quoted value
parse_attribute(p) == parse_attribute_name(read_ident(p))

\* the body of `if let Some((k, v)) = ...` in parse_attributes
StoreAttribute(attributes, k, v) ==
    [raw   |-> MapInsert(attributes.raw, k, v),
     id    |-> IF k = ID_ATTR THEN v ELSE attributes.id,
     class |-> IF k # ID_ATTR /\ k = CLASS_ATTR THEN v ELSE attributes.class]

\* parse_attributes: the loop; the read of the current byte after the
\* whitespace skip is not guarded by is_eof
RECURSIVE parse_attributes_loop(_, _)
RECURSIVE parse_attributes_at(_, _)
RECURSIVE parse_attributes_store(_, _)

\* the end of an iteration: the attribute, if any, is stored and the cursor
\* moves one byte on
parse_attributes_store(attribute, attributes) ==
    parse_attributes_loop(
        Advance(attribute.p, 1),
        IF attribute.r = None THEN attributes
        ELSE StoreAttribute(attributes, attribute.r[1].k, attribute.r[1].v))

\* an iteration after its whitespace skip
parse_attributes_at(p, attributes) ==
    IF ~InBounds(p.idx) THEN Ret([p EXCEPT !.panic = TRUE], attributes)
    ELSE IF Contains(SELF_CLOSING, input[p.idx + 1]) THEN Ret(p, attributes)
    ELSE parse_attributes_store(parse_attribute(p), attributes)

parse_attributes_loop(p, attributes) ==
    IF is_eof(p) THEN Ret(p, attributes)
    ELSE parse_attributes_at(skip_whitespaces(p), attributes)

parse_attributes(p) == parse_attributes_loop(p, NewAttributes)

(***************************************************************************)
(* The class index                                                         *)
(***************************************************************************)
\* classes.entry(slice).or_insert_with(Vec::new).push(element)
ClassPush(cls, key, element) ==
    LET old == MapGet(cls, key)
    IN  MapInsert(cls, key, IF old = None THEN <<element>> ELSE Append(old[1], element))

\* the end of the slice cut at position i of the class value
TokenEnd(i, is_last_char) == IF is_last_char THEN i + 1 ELSE i

\* process_class: the loop over the class value `raw`, at position i
RECURSIVE process_class_loop(_, _, _, _, _)
process_class_loop(cls, raw, element, i, last) ==
    IF i >= Len(raw) THEN cls
    ELSE
    LET cur == raw[i + 1]
        is_last_char == (i = Len(raw) - 1)
    IN  IF is_strict_whitespace(cur) \/ is_last_char
        THEN LET end == TokenEnd(i, is_last_char)
                 token == SubSeq(raw, last + 1, Min(Len(raw), end))
             IN  process_class_loop(
                     IF Len(token) > 0 THEN ClassPush(cls, token, element) ELSE cls,
                     raw, element, i + 1, end + 1)
        ELSE process_class_loop(cls, raw, element, i + 1, last)

process_class(cls, class, element) == process_class_loop(cls, class, element, 0, 0)

(***************************************************************************)
(* Nodes and the arena                                                     *)
(***************************************************************************)
\* HTMLTag::new inside Node::Tag; `kind` names the return statement of
\* parse_tag that built the node, `open` is the position right after the `>`
\* of the opening tag
TagNode(name, attributes, children, raw, kind, open) ==
    [type |-> "Tag", name |-> name, attributes |-> attributes,
     children |-> children, raw |-> raw, kind |-> kind, open |-> open]
RawNode(raw) ==
    [type |-> "Raw", name |-> <<>>, attributes |-> NewAttributes,
     children |-> <<>>, raw |-> raw, kind |-> "text", open |-> raw.s]
CommentNode(raw) ==
    [type |-> "Comment", name |-> <<>>, attributes |-> NewAttributes,
     children |-> <<>>, raw |-> raw, kind |-> "comment", open |-> raw.s]

\* the handle of a node is its position in the arena, counted from 0
NodeAt(arena, h) == arena[h + 1]

\* the end-tag test of the container loop
end_tag_matches(ident, name) == ident = name

(***************************************************************************)
(* parse_tag and parse_single                                              *)
(***************************************************************************)
RECURSIVE parse_tag(_, _)
RECURSIVE parse_single(_)
RECURSIVE parse_children(_, _, _)
RECURSIVE parse_children_at(_, _, _)
RECURSIVE parse_child(_, _, _)

\* the comment branch: the node holds the slice skip_comment returns
parse_comment(comment) ==
    IF comment.r = None THEN Ret(comment.p, None)
    ELSE Ret(comment.p, Some(CommentNode(comment.r[1])))

\* <!DOCTYPE, from the identifier after it on: no node either way
parse_doctype(ident) ==
    IF ident.r # None /\ to_ascii_uppercase(SliceBytes(ident.r[1])) = <<"H","T","M","L">>
    THEN Ret(expect_and_skip(
                 skip_whitespaces([ident.p EXCEPT !.version = "HTML5"]), ">").p, None)
    ELSE Ret(ident.p, None)

\* a declaration that is no comment, from its name on
parse_declaration(name) ==
    IF name.r = None THEN Ret(name.p, None)
    ELSE IF to_ascii_uppercase(SliceBytes(name.r[1])) = <<"D","O","C","T","Y","P","E">>
    THEN parse_doctype(read_ident(skip_whitespaces(name.p)))
    ELSE Ret(name.p, None)

\* the `<!` branch of parse_tag, entered after the `!`
parse_markup_declaration(p) ==
    IF SliceBytes(slice(p.idx, p.idx + Len(COMMENT))) = COMMENT
    THEN parse_comment(skip_comment(Advance(p, Len(COMMENT))))
    ELSE parse_declaration(read_ident(p))

\* the container loop after `</`: the identifier has to be the tag's name,
\* the `>` after it may be missing
parse_end_tag(ident, name, children) ==
    IF ident.r = None THEN Ret(ident.p, None)
    ELSE IF ~end_tag_matches(SliceBytes(ident.r[1]), name) THEN Ret(ident.p, None)
    ELSE Ret(expect_and_skip(ident.p, ">").p, Some(children))

\* the container loop after parse_single: a child that yields no node fails
\* the element
parse_child(node, name, children) ==
    IF node.p.panic \/ node.r = None THEN Ret(node.p, None)
    ELSE parse_children(node.p, name, Append(children, node.r[1]))

\* an iteration of the container loop after its whitespace skip
parse_children_at(p, name, children) ==
    IF SliceBytes(slice(p.idx, p.idx + Len(END_OF_TAG))) = END_OF_TAG
    THEN parse_end_tag(read_ident(Advance(p, Len(END_OF_TAG))), name, children)
    ELSE parse_child(parse_single(p), name, children)

\* the container loop of parse_tag: r is None when the element fails,
\* Some(children) when the loop is left by `break` or at the end of input
parse_children(p, name, children) ==
    IF is_eof(p) THEN Ret(p, Some(children))
    ELSE parse_children_at(skip_whitespaces(p), name, children)

\* parse_tag after the container loop
parse_tag_container(start, name, attributes, open, content) ==
    IF content.r = None THEN Ret(content.p, None)
    ELSE Ret(content.p,
             Some(TagNode(name, attributes, content.r[1],
                          slice_from(content.p, start), "container", open)))

\* parse_tag at the `>` of the opening tag
parse_tag_close(start, name, attributes, is_self_closing, gt) ==
    IF gt.r = None THEN Ret(gt.p, None)
    ELSE IF is_self_closing
    THEN Ret(gt.p, Some(TagNode(name, attributes, <<>>, slice_from(gt.p, start),
                                "selfclosing", gt.p.idx)))
    ELSE IF name \in VOID_TAGS
    THEN Ret(gt.p, Some(TagNode(name, attributes, <<>>, slice_from(gt.p, start),
                                "void", gt.p.idx)))
    ELSE parse_tag_container(start, name, attributes, gt.p.idx,
                             parse_children(gt.p, name, <<>>))

\* parse_tag after the test for `/`
parse_tag_slash(start, name, attributes, is_self_closing) ==
    parse_tag_close(start, name, attributes, is_self_closing.r,
                    expect_and_skip(skip_whitespaces(is_self_closing.p), ">"))

\* parse_tag after parse_attributes
parse_tag_attributes(start, name, attributes) ==
    IF attributes.p.panic THEN Ret(attributes.p, None)
    ELSE parse_tag_slash(start, name, attributes.r,
                         expect_and_skip_cond(attributes.p, "/"))

\* parse_tag from the tag name on
parse_tag_name(start, name) ==
    IF name.r = None THEN Ret(name.p, None)
    ELSE parse_tag_attributes(start, SliceBytes(name.r[1]), parse_attributes(name.p))

\* parse_tag after the test for `!`
parse_tag_declaration(start, markup_declaration) ==
    IF markup_declaration.r THEN parse_markup_declaration(markup_declaration.p)
    ELSE parse_tag_name(start, read_ident(markup_declaration.p))

\* parse_tag after the step over the `<`
parse_tag_start(start, next) ==
    IF next.r = None THEN Ret(next.p, None)
    ELSE parse_tag_declaration(start, expect_and_skip_cond(next.p, "!"))

parse_tag(p, skip_current) ==
    parse_tag_start(p.idx, IF skip_current THEN stream_next(p) ELSE Ret(p, Some("")))

\* appends the node to the arena; its handle is its position
register_tag(p, node) == Ret([p EXCEPT !.tags = Append(@, node)], Len(p.tags))

\* the bookkeeping of parse_single for a produced node: the id index is
\* overwritten, the class value is tokenized into the class index
index_node(p, node, handle) ==
    [p EXCEPT
        !.ids = IF node.type = "Tag" /\ node.attributes.id # None /\ options.track_ids
                THEN MapInsert(@, node.attributes.id[1], handle) ELSE @,
        !.classes = IF node.type = "Tag" /\ node.attributes.class # None
                       /\ options.track_classes
                    THEN process_class(@, node.attributes.class[1], handle) ELSE @]

\* parse_single after parse_tag
produce_tag(tag) ==
    IF tag.p.panic \/ tag.r = None THEN Ret(tag.p, None)
    ELSE Ret(index_node(register_tag(tag.p, tag.r[1]).p, tag.r[1], Len(tag.p.tags)),
             Some(Len(tag.p.tags)))

\* parse_single after read_to
produce_text(text) ==
    Ret(register_tag(text.p, RawNode(text.r)).p, Some(Len(text.p.tags)))

\* parse_single after its whitespace skip
parse_single_at(p) ==
    IF current_cpy(p) = None THEN Ret(p, None)
    ELSE IF current_cpy(p)[1] = OPENING_TAG THEN produce_tag(parse_tag(p, TRUE))
    ELSE produce_text(read_to(p, {OPENING_TAG}))

parse_single(p) == parse_single_at(skip_whitespaces(p))

(***************************************************************************)
(* VDom: the queries                                                       *)
(***************************************************************************)
\* the tokens of a class value: its maximal runs of non-whitespace bytes
RECURSIVE Tokens(_, _)
Tokens(raw, cur) ==
    IF raw = <<>> THEN (IF cur = <<>> THEN <<>> ELSE <<cur>>)
    ELSE IF Head(raw) \in WHITESPACES
         THEN (IF cur = <<>> THEN <<>> ELSE <<cur>>) \o Tokens(Tail(raw), <<>>)
         ELSE Tokens(Tail(raw), Append(cur, Head(raw)))

\* Attributes::is_class_member
is_class_member(attributes, member) ==
    /\ attributes.class # None
    /\ \E i \in 1..Len(Tokens(attributes.class[1], <<>>)) :
           Tokens(attributes.class[1], <<>>)[i] = member

\* the linear scan of get_element_by_id: the first tag of the arena with this id
ScanById(arena, bytes) ==
    LET hits == {h \in 0..(Len(arena) - 1) :
                    /\ NodeAt(arena, h).type = "Tag"
                    /\ NodeAt(arena, h).attributes.id = Some(bytes)}
    IN  IF hits = {} THEN None ELSE Some(SetMin(hits))

get_element_by_id(track, index, arena, bytes) ==
    IF track THEN MapGet(index, bytes) ELSE ScanById(arena, bytes)

\* the filter_map of get_elements_by_class_name over the arena from handle h on
RECURSIVE ScanByClass(_, _, _)
ScanByClass(arena, member, h) ==
    IF h >= Len(arena) THEN <<>>
    ELSE (IF NodeAt(arena, h).type = "Tag"
             /\ is_class_member(NodeAt(arena, h).attributes, member)
          THEN <<h>> ELSE <<>>) \o ScanByClass(arena, member, h + 1)

get_elements_by_class_name(track, index, arena, bytes) ==
    IF track
    THEN (IF MapGet(index, bytes) = None THEN <<>> ELSE MapGet(index, bytes)[1])
    ELSE ScanByClass(arena, bytes, 0)

(***************************************************************************)
(* Inputs                                                                  *)
(***************************************************************************)
MaxMarkupFrags == 4
MaxNestFrags == 4
MaxDeclFrags == 4
MaxIndexFrags == 3
MaxClassLen == 3

Words(frags, n) == {Flatten(w) : w \in UNION {[1..k -> frags] : k \in 0..n}}

\* opening tags piece by piece
MarkupFrags ==
    { <<"<","a">>, <<"<","a"," ","b">>, <<"<","b","r">>, <<"/">>, <<">">>,
      <<" ">>, <<"x">> }
\* containers, their end tags and their content
NestFrags ==
    { <<"<","a",">">>, <<"<","/","a",">">>, <<"<","/","a">>, <<"<","/","b",">">>,
      <<"x">>, <<" ">> }
\* comments and declarations
DeclFrags ==
    { <<"<","!","-","-">>, <<"-">>, <<"-","-",">">>,
      <<"<","!","D","O","C","T","Y","P","E">>, <<" ","h","t","m","l">>, <<">">> }
\* elements with an id or a class
IndexFrags ==
    { <<"<","a"," ","i","d","=","'","x","'",">">>,
      <<"<","b"," ","i","d","=","'","x","'","/",">">>,
      <<"<","/","a",">">>,
      <<"<","p"," ","c","l","a","s","s","=","'","c"," ","c","'",">">>,
      <<"<","b"," ","c","l","a","s","s","=","'","c","'","/",">">>,
      <<"<","/","p",">">> }
\* one element with a class value over these bytes
ClassBytes == {"c", "d", " ", "\n"}
ClassInputs ==
    { <<"<","p"," ","c","l","a","s","s","=","'">> \o v \o <<"'","/",">">> :
        v \in UNION {[1..k -> ClassBytes] : k \in 0..MaxClassLen} }

MarkupInputs ==
    Words(MarkupFrags, MaxMarkupFrags) \cup Words(NestFrags, MaxNestFrags)
        \cup Words(DeclFrags, MaxDeclFrags)
IndexInputs == Words(IndexFrags, MaxIndexFrags) \cup ClassInputs

QueryIds == {<<"x">>}
QueryClasses == {<<"c">>}

AllOn == [track_ids |-> TRUE, track_classes |-> TRUE]
AllOptions == [track_ids : BOOLEAN, track_classes : BOOLEAN]

(***************************************************************************)
(* The state machine: Parser::new, the loop of Parser::parse, the queries  *)
(***************************************************************************)
Init ==
    /\ \/ /\ input \in MarkupInputs
          /\ options = AllOn
       \/ /\ input \in IndexInputs
          /\ options \in AllOptions
    /\ pc = "parsing"
    /\ idx = 0
    /\ ast = <<>>
    /\ tags = <<>>
    /\ ids = {}
    /\ classes = {}
    /\ version = "none"
    /\ ret = None

Self ==
    [idx |-> idx, tags |-> tags, ids |-> ids, classes |-> classes,
     version |-> version, panic |-> FALSE]

\* the body of the loop of parse, given what parse_single hands back
PushNode(node) ==
    /\ idx' = node.p.idx
    /\ IF node.p.panic
       THEN /\ pc' = "panicked"
            /\ UNCHANGED <<ast, tags, ids, classes, version>>
       ELSE /\ pc' = "parsing"
            /\ ast' = IF node.r = None THEN ast ELSE Append(ast, node.r[1])
            /\ tags' = node.p.tags
            /\ ids' = node.p.ids
            /\ classes' = node.p.classes
            /\ version' = node.p.version

\* one iteration of the loop of parse
ParseLoop ==
    /\ pc = "parsing"
    /\ ~is_eof(Self)
    /\ PushNode(parse_single(Self))
    /\ UNCHANGED <<input, options, ret>>

\* parse returns the parser at the end of input
ParseReturn ==
    /\ pc = "parsing"
    /\ is_eof(Self)
    /\ pc' = "done"
    /\ UNCHANGED <<input, options, idx, ast, tags, ids, classes, version, ret>>

GetElementById ==
    /\ pc = "done"
    /\ \E bytes \in QueryIds :
         ret' = Some([op |-> "id", key |-> bytes,
                      val |-> get_element_by_id(options.track_ids, ids, tags, bytes)])
    /\ UNCHANGED <<input, options, pc, idx, ast, tags, ids, classes, version>>

GetElementsByClassName ==
    /\ pc = "done"
    /\ \E bytes \in QueryClasses :
         ret' = Some([op |-> "class", key |-> bytes,
                      val |-> get_elements_by_class_name(
                                  options.track_classes, classes, tags, bytes)])
    /\ UNCHANGED <<input, options, pc, idx, ast, tags, ids, classes, version>>

Next == ParseLoop \/ ParseReturn \/ GetElementById \/ GetElementsByClassName

Spec == Init /\ [][Next]_vars

(***************************************************************************)
(* Vocabulary of the properties                                            *)
(***************************************************************************)
Handles == 0..(Len(tags) - 1)
TagHandles == {h \in Handles : NodeAt(tags, h).type = "Tag"}
Node(h) == NodeAt(tags, h)

\* the bytes [s, e) of the input, empty when the range leaves the buffer
Text(s, e) == IF s <= e /\ e <= Len(input) THEN Bytes(s, e) ELSE <<>>

\* the first position at or after i that holds no whitespace byte
SkipWs(i) ==
    LET stops == {j \in i..(Len(input) - 1) : input[j + 1] \notin WHITESPACES}
    IN  IF stops = {} THEN Max(i, Len(input)) ELSE SetMin(stops)

\* the position of the first `>` after position s, Len(input) if there is none
FirstGt(s) ==
    LET gts == {j \in (s + 1)..(Len(input) - 1) : input[j + 1] = ">"}
    IN  IF gts = {} THEN Len(input) ELSE SetMin(gts)

\* the opening tag at s, read off the source: it holds no quote, and the last
\* byte before its `>` that is no whitespace is a `/`
PlainOpeningTag(s) ==
    FirstGt(s) < Len(input) /\ \A j \in s..FirstGt(s) : input[j + 1] \notin QUOTES
SlashBeforeGt(s) ==
    LET before == {j \in (s + 1)..(FirstGt(s) - 1) : input[j + 1] \notin WHITESPACES}
    IN  before # {} /\ input[(CHOOSE j \in before : \A k \in before : k <= j) + 1] = "/"

\* where the content of a tag ends: after its last child, or after its
\* opening tag
ContentEnd(n) ==
    IF n.children = <<>> THEN n.open ELSE Node(n.children[Len(n.children)]).raw.e

\* the end tag of n follows its content: `</`, then the name, then a byte
\* that ends the identifier
EndTagAt(n) == SkipWs(ContentEnd(n))
HasEndTag(n) ==
    LET w == EndTagAt(n)
        k == w + Len(END_OF_TAG) + Len(n.name)
    IN  /\ Text(w, w + Len(END_OF_TAG)) = END_OF_TAG
        /\ Text(w + Len(END_OF_TAG), k) = n.name
        /\ k < Len(input)
        /\ ~is_ident(input[k + 1])
\* the position right after the end tag of n, its `>` included when present
EndTagEnd(n) ==
    LET k == EndTagAt(n) + Len(END_OF_TAG) + Len(n.name)
    IN  IF k < Len(input) /\ input[k + 1] = ">" THEN k + 1 ELSE k

RECURSIVE Concat(_)
Concat(hs) == IF hs = <<>> THEN <<>> ELSE SliceBytes(Node(Head(hs)).raw) \o Concat(Tail(hs))

IsPrefix(a, b) == Len(a) <= Len(b) /\ SubSeq(b, 1, Len(a)) = a

(***************************************************************************)
(* C1: every Tag node's raw span starts at its `<` and ends with the `>`   *)
(* of its opening tag when that tag is self-closing or void, and with its  *)
(* matched end tag when it is a container.                                 *)
(***************************************************************************)
C1_RawSpanExact ==
    \A h \in TagHandles :
        LET n == Node(h) IN
        PlainOpeningTag(n.raw.s) =>
            /\ input[n.raw.s + 1] = OPENING_TAG
            /\ n.raw.e <= Len(input)
            /\ IF SlashBeforeGt(n.raw.s) \/ n.name \in VOID_TAGS
               THEN n.raw.e = FirstGt(n.raw.s) + 1
               ELSE HasEndTag(n) /\ n.raw.e = EndTagEnd(n)

(***************************************************************************)
(* C2: after parse returns, the raw spans of the top-level nodes,          *)
(* concatenated in order, are a prefix of the input.                       *)
(***************************************************************************)
C2_RoundTripPrefix ==
    pc = "done" => IsPrefix(Concat(ast), input)

\* where the stretch of input that precedes top-level node i starts, and
\* where it ends; i = Len(ast) + 1 names the stretch after the last node
GapStart(i) == IF i = 1 THEN 0 ELSE Node(ast[i - 1]).raw.e
GapEnd(i) == IF i = Len(ast) + 1 THEN Len(input) ELSE Node(ast[i]).raw.s

\* C2 as amended: after parse returns, the raw spans of the top-level nodes
\* are non-empty slices of the input that follow one another without
\* overlap, and each stretch of input they leave out is whitespace, then
\* nothing or bytes that begin at a `<`.
C2_SpansInOrder ==
    pc = "done" =>
        /\ \A i \in 1..Len(ast) :
               /\ Node(ast[i]).raw.s < Node(ast[i]).raw.e
               /\ Node(ast[i]).raw.e <= Len(input)
        /\ \A i \in 1..(Len(ast) + 1) :
               /\ GapStart(i) <= GapEnd(i)
               /\ \/ SkipWs(GapStart(i)) >= GapEnd(i)
                  \/ input[SkipWs(GapStart(i)) + 1] = OPENING_TAG

\* two top-level nodes with skipped whitespace between them
C2_Witness ==
    /\ pc = "done"
    /\ Len(ast) = 2
    /\ Node(ast[1]).raw.e < Node(ast[2]).raw.s
    /\ SkipWs(Node(ast[1]).raw.e) = Node(ast[2]).raw.s

(***************************************************************************)
(* C3: a Tag node whose opening tag has a `/` before its `>`, or whose     *)
(* name is a void-element name, has no children.                           *)
(***************************************************************************)
C3_NoChildrenWhenSelfClosing ==
    \A h \in TagHandles :
        LET n == Node(h) IN
        (PlainOpeningTag(n.raw.s) /\ (SlashBeforeGt(n.raw.s) \/ n.name \in VOID_TAGS))
            => n.children = <<>>

(***************************************************************************)
(* C4: get_element_by_id answers the same with id tracking (the IdIndex)   *)
(* as without it (the first match of a scan of the arena).                 *)
(***************************************************************************)
C4_IdLookupsAgree ==
    (pc = "done" /\ options.track_ids) =>
        \A bytes \in QueryIds :
            get_element_by_id(TRUE, ids, tags, bytes)
                = get_element_by_id(FALSE, ids, tags, bytes)

\* how often the token occurs in the class value of node h
RECURSIVE Count(_, _)
Count(seq, x) ==
    IF seq = <<>> THEN 0 ELSE (IF Head(seq) = x THEN 1 ELSE 0) + Count(Tail(seq), x)
Occurrences(h, token) ==
    IF Node(h).attributes.class = None THEN 0
    ELSE Count(Tokens(Node(h).attributes.class[1], <<>>), token)

Repeat(x, n) == [i \in 1..n |-> x]

\* the tags of `hs` by the position of their `<`, each as often as the token
\* occurs in its class value
RECURSIVE InDocumentOrder(_, _)
InDocumentOrder(hs, token) ==
    IF hs = {} THEN <<>>
    ELSE LET first == CHOOSE h \in hs : \A g \in hs : Node(h).raw.s <= Node(g).raw.s
         IN  Repeat(first, Occurrences(first, token))
                 \o InDocumentOrder(hs \ {first}, token)

(***************************************************************************)
(* C5: get_elements_by_class_name returns, with and without class          *)
(* tracking, the elements that carry the token, in document order, once    *)
(* per occurrence of the token in the element's class value.               *)
(***************************************************************************)
C5_ClassLookupDocumentOrder ==
    pc = "done" =>
        \A bytes \in QueryClasses :
            get_elements_by_class_name(options.track_classes, classes, tags, bytes)
                = InDocumentOrder(TagHandles, bytes)

(***************************************************************************)
(* C6: every read of the cursor during parse is inside the buffer: no      *)
(* parse reaches a panic, and every slice taken lies inside the input.     *)
(***************************************************************************)
C6_ReadsInBounds ==
    /\ pc # "panicked"
    /\ \A h \in Handles : SliceInBounds(Node(h).raw.s, Node(h).raw.e)

(***************************************************************************)
(* C7: parse terminates: the cursor never moves back, an iteration of the  *)
(* driver moves it forward, and the driver goes on to the end of input and *)
(* returns.                                                                *)
(***************************************************************************)
C7_ParseTerminates ==
    [][pc = "parsing" =>
          /\ idx' >= idx
          /\ pc' \in {"parsing", "done"}
          /\ (pc' = "parsing" => idx' > idx)]_vars

(***************************************************************************)
(* C8: a container yields a Tag node only if its children are followed by  *)
(* `</` and the name of its opening tag.                                   *)
(***************************************************************************)
C8_ContainerNeedsEndTag ==
    \A h \in TagHandles : Node(h).kind = "container" => HasEndTag(Node(h))

\* the end of the first `-->` at or after position i, 0 if there is none
TERMINATOR == <<"-", "-", ">">>
TerminatorEnd(i) ==
    LET at == {j \in i..(Len(input) - 3) : Text(j, j + 3) = TERMINATOR}
    IN  IF at = {} THEN 0 ELSE SetMin(at) + 3
COMMENT_OPENER == <<"<", "!", "-", "-">>

(***************************************************************************)
(* C9: a Comment node spans the input from the `<` of its `<!--` to the    *)
(* end of the first `-->` after the opener, and an opener that is followed *)
(* by a `-->` yields a Comment node.                                       *)
(***************************************************************************)
C9_CommentSpan ==
    pc = "done" =>
        /\ \A h \in Handles :
               Node(h).type = "Comment" =>
                   /\ Text(Node(h).raw.s, Node(h).raw.s + 4) = COMMENT_OPENER
                   /\ Node(h).raw.e = TerminatorEnd(Node(h).raw.s + 4)
        /\ (Text(0, 4) = COMMENT_OPENER /\ TerminatorEnd(4) # 0) =>
               (ast # <<>> /\ Node(ast[1]).type = "Comment")

\* the handles the ClassIndex holds for a token when every element puts
\* itself there once per occurrence, in the order the elements are produced
RECURSIVE InArenaOrder(_, _)
InArenaOrder(h, token) ==
    IF h >= Len(tags) THEN <<>>
    ELSE (IF Node(h).type = "Tag" THEN Repeat(h, Occurrences(h, token)) ELSE <<>>)
             \o InArenaOrder(h + 1, token)

(***************************************************************************)
(* C10: the ClassIndex holds, for each maximal run of non-whitespace bytes *)
(* of a class value, the element once per occurrence; no key is empty or   *)
(* holds a whitespace byte.                                                *)
(***************************************************************************)
C10_ClassIndexTokens ==
    (pc = "done" /\ options.track_classes) =>
        \A e \in classes :
            /\ e[1] # <<>>
            /\ \A i \in 1..Len(e[1]) : e[1][i] \notin WHITESPACES
            /\ e[2] = InArenaOrder(0, e[1])

\* the handles of the document tree: the top-level nodes and everything
\* under them by child links
RECURSIVE Subtree(_)
Subtree(h) ==
    {h} \cup UNION {Subtree(Node(h).children[i]) : i \in 1..Len(Node(h).children)}
InTree == UNION {Subtree(ast[i]) : i \in 1..Len(ast)}

(***************************************************************************)
(* C11: after parse returns, every node the IdIndex or a ClassIndex entry  *)
(* refers to is in the document tree: an element produced inside an        *)
(* element that failed later has no entry in either index.                 *)
(***************************************************************************)
C11_IndexedNodesInTree ==
    pc = "done" =>
        /\ \A e \in ids : e[2] \in InTree
        /\ \A e \in classes : \A i \in 1..Len(e[2]) : e[2][i] \in InTree

====
